---- MODULE Spec2Model ----
(***************************************************************************)
(* A model of tae/api.py: the three entry points pca, tica and ae and the  *)
(* shared helper _transform.  One call is followed from its arguments to   *)
(* its return value (or its failure).                                      *)
(*                                                                         *)
(* A row of the input is named by <<series, time>>; a sample pair of a     *)
(* dataset is <<row, row>>; a dataset is a sequence of sample pairs.       *)
(* A transformed row records the input row it was computed from and the    *)
(* whitening passes applied to it (each pass is named by the set of rows   *)
(* whose column statistics it used).                                       *)
(***************************************************************************)
EXTENDS Integers, Sequences, FiniteSets, TLC

\* ---------------------------------------------------------------- bounds
MaxSeries == 2
MaxT == 2
MaxLag == 2
MaxBatch == 2
MaxEpochs == 2

\* ---------------------------------------------------------------- inputs
Methods == {"pca", "tica", "ae"}
Containers == {"array", "list", "tuple"}
\* validation_split values given as <<numerator, denominator>>
Fractions == {<<-1, 2>>, <<0, 1>>, <<1, 4>>, <<1, 2>>, <<1, 1>>, <<3, 2>>}
NoSplit == [given |-> FALSE, num |-> 0, den |-> 1]
Splits == {NoSplit} \cup {[given |-> TRUE, num |-> f[1], den |-> f[2]] : f \in Fractions}
LengthLists == UNION {[1..k -> 1..MaxT] : k \in 1..MaxSeries}

\* ---------------------------------------------------------------- helpers
Min(a, b) == IF a < b THEN a ELSE b
Max(a, b) == IF a > b THEN a ELSE b

RECURSIVE SumSeq(_)
SumSeq(s) == IF s = <<>> THEN 0 ELSE Head(s) + SumSeq(Tail(s))

RECURSIVE Flatten(_)
Flatten(ss) == IF ss = <<>> THEN <<>> ELSE Head(ss) \o Flatten(Tail(ss))

\* Python slice s[a:b] for 0 <= a <= b: indices clamp to the length of s
Slice(s, a, b) == SubSeq(s, Min(a, Len(s)) + 1, Min(b, Len(s)))

\* the elements of the set S of integers in ascending order
RECURSIVE Ascending(_)
Ascending(S) ==
    IF S = {} THEN <<>>
    ELSE LET m == CHOOSE x \in S : \A y \in S : x <= y
         IN <<m>> \o Ascending(S \ {m})

\* ---------------------------------------------------------------- utils
\* create_dataset: a window of size lag+1 slides within each series
SeriesPairs(i, T, lag) ==
    [j \in 1..Max(0, T - lag) |-> <<<<i, j - 1>>, <<i, j - 1 + lag>>>>]

RECURSIVE ConcatSeries(_, _, _)
ConcatSeries(lengths, i, lag) ==
    IF i > Len(lengths) THEN <<>>
    ELSE SeriesPairs(i, lengths[i], lag) \o ConcatSeries(lengths, i + 1, lag)

\* variant: one window slides over the concatenation of all series
create_dataset_straddle(lengths, lag) ==
    LET rows == Flatten([i \in 1..Len(lengths) |->
                    [j \in 1..lengths[i] |-> <<i, j - 1>>]])
    IN [j \in 1..Max(0, Len(rows) - lag) |-> <<rows[j], rows[j + lag]>>]

create_dataset(lengths, lag) == ConcatSeries(lengths, 1, lag)

\* Python's round of the quotient a/b (a >= 0, b > 0): ties go to the even
round(a, b) ==
    LET q == a \div b
        r == a % b
    IN IF 2 * r < b THEN q
       ELSE IF 2 * r > b THEN q + 1
       ELSE IF q % 2 = 0 THEN q ELSE q + 1

ValidationSize(f, N) == round(f.num * N, f.den)

\* random_split rejects a fraction outside (0,1) and a cut that leaves one
\* of the two parts, both of which feed a loader, empty
InvalidFraction(f, N) ==
    \/ f.num <= 0
    \/ f.num >= f.den
    \/ ValidationSize(f, N) = 0
    \/ ValidationSize(f, N) = N

\* random_split: the possible (validation, train) index lists.  The cut of
\* a random permutation is modelled by the choice of the validation index
\* set; each part is listed in ascending index order.
random_split(N, f) ==
    {[validation |-> Ascending(V), train |-> Ascending((1..N) \ V)] :
        V \in {W \in SUBSET (1..N) : Cardinality(W) = ValidationSize(f, N)}}

Subset(dataset, indices) == [j \in 1..Len(indices) |-> dataset[indices[j]]]

\* whiten_data: every column is divided by its standard deviation over all
\* rows of the matrix it is given; rows keep their number and order
whiten_data(m) ==
    [j \in 1..Len(m) |->
        [src |-> m[j].src,
         scale |-> Append(m[j].scale, {m[k].src : k \in 1..Len(m)})]]

\* ---------------------------------------------------------------- loader
NoLoader ==
    [present |-> FALSE, dataset |-> <<>>, batch_size |-> 1,
     shuffle |-> FALSE, drop_last |-> FALSE]

\* variant: the loader reshuffles on every pass
DataLoaderShuffled(dataset, batch_size) ==
    [present |-> TRUE, dataset |-> dataset, batch_size |-> batch_size,
     shuffle |-> TRUE, drop_last |-> FALSE]

\* variant: the loader drops a final batch smaller than batch_size
DataLoaderDropLast(dataset, batch_size) ==
    [present |-> TRUE, dataset |-> dataset, batch_size |-> batch_size,
     shuffle |-> FALSE, drop_last |-> TRUE]

\* _DataLoader(dataset, batch_size=batch_size): shuffle and drop_last are
\* left at their defaults
DataLoader(dataset, batch_size) ==
    [present |-> TRUE, dataset |-> dataset, batch_size |-> batch_size,
     shuffle |-> FALSE, drop_last |-> FALSE]

RECURSIVE Batches(_, _, _)
Batches(s, B, drop_last) ==
    IF s = <<>> THEN <<>>
    ELSE IF Len(s) <= B
         THEN IF drop_last /\ Len(s) < B THEN <<>> ELSE <<s>>
         ELSE <<SubSeq(s, 1, B)>> \o Batches(SubSeq(s, B + 1, Len(s)), B, drop_last)

Orders(loader) ==
    LET n == Len(loader.dataset)
    IN IF loader.shuffle
       THEN {p \in [1..n -> 1..n] : \A a, b \in 1..n : a # b => p[a] # p[b]}
       ELSE {[j \in 1..n |-> j]}

\* the batch sequences one pass over the loader can yield
Iter(loader) ==
    {Batches(Subset(loader.dataset, p), loader.batch_size, loader.drop_last) :
        p \in Orders(loader)}

\* ---------------------------------------------------------------- models
Val(row) == 10 * row[1] + row[2] + 1

ZeroStats == [n |-> 0, sx |-> 0, sy |-> 0, sxx |-> 0, sxy |-> 0, steps |-> 0]

\* the contribution of one batch to the running sums of a linear estimator
BatchStats(batch) ==
    [n |-> Len(batch),
     sx |-> SumSeq([j \in 1..Len(batch) |-> Val(batch[j][1])]),
     sy |-> SumSeq([j \in 1..Len(batch) |-> Val(batch[j][2])]),
     sxx |-> SumSeq([j \in 1..Len(batch) |-> Val(batch[j][1]) * Val(batch[j][1])]),
     sxy |-> SumSeq([j \in 1..Len(batch) |-> Val(batch[j][1]) * Val(batch[j][2])]),
     steps |-> 0]

RECURSIVE Accumulate(_, _)
Accumulate(batches, acc) ==
    IF batches = <<>> THEN acc
    ELSE LET b == BatchStats(Head(batches))
         IN Accumulate(Tail(batches),
                [n |-> acc.n + b.n, sx |-> acc.sx + b.sx, sy |-> acc.sy + b.sy,
                 sxx |-> acc.sxx + b.sxx, sxy |-> acc.sxy + b.sxy,
                 steps |-> 0])

NoModel == [kind |-> "none", fitted |-> FALSE, stats |-> ZeroStats]

\* _PCA(), _TICA(...), _AE(...): an estimator without model state yet
NewModel(kind) == [kind |-> kind, fitted |-> FALSE, stats |-> ZeroStats]

\* fit: PCA and TICA accumulate the statistics of one pass over the train
\* loader; AE takes one gradient step per batch of every epoch
FitState(kind, trainPasses) ==
    IF kind = "ae"
    THEN [ZeroStats EXCEPT
            !.steps = SumSeq([e \in 1..Len(trainPasses) |-> Len(trainPasses[e])])]
    ELSE Accumulate(trainPasses[1], ZeroStats)

\* model.transform(loader): one output row per sample, in the order the
\* loader yields them
model_transform(batches) ==
    LET s == Flatten(batches)
    IN [j \in 1..Len(s) |-> [src |-> s[j][1], scale |-> <<>>]]

\* ---------------------------------------------------------------- state
VARIABLES
    pc,               \* the step the call is at
    args,             \* the arguments of the call
    data_0,           \* create_dataset(data, lag=0)
    data_lag,         \* create_dataset(data, lag=lag) (tica, ae)
    split_out,        \* what _random_split returned
    split_calls,      \* number of calls of _random_split
    train_loader,
    test_loader,
    model,
    losses,           \* train_loss, test_loss
    passes,           \* every pass made over a loader, in order
    raw,              \* what model.transform returned
    transformed_data,
    result,           \* the first component of the return value
    error

vars == <<pc, args, data_0, data_lag, split_out, split_calls, train_loader,
          test_loader, model, losses, passes, raw, transformed_data, result,
          error>>

NoArgs ==
    [method |-> "none", container |-> "array", lengths |-> <<>>, lag |-> 0,
     n_epochs |-> 0, validation_split |-> NoSplit, batch_size |-> 1,
     whiten |-> FALSE]

NoResult == [kind |-> "none", rows |-> <<>>, chunks |-> <<>>]

Init ==
    /\ pc = "idle"
    /\ args = NoArgs
    /\ data_0 = <<>>
    /\ data_lag = <<>>
    /\ split_out = [validation |-> <<>>, train |-> <<>>]
    /\ split_calls = 0
    /\ train_loader = NoLoader
    /\ test_loader = NoLoader
    /\ model = NoModel
    /\ losses = [train |-> "unset", test |-> "unset"]
    /\ passes = <<>>
    /\ raw = <<>>
    /\ transformed_data = <<>>
    /\ result = NoResult
    /\ error = "none"

\* ---------------------------------------------------------------- api
\* variant: _transform is called before model.fit
NextStepSwapped(step) ==
    CASE step = "create_dataset" -> "split"
      [] step = "split" -> "construct"
      [] step = "construct" -> "transform"
      [] step = "transform" -> "fit"
      [] step = "fit" -> "whiten"
      [] step = "whiten" -> "reassemble"
      [] step = "reassemble" -> "done"

\* the order of the statements of pca, tica and ae, and of _transform
NextStep(step) ==
    CASE step = "create_dataset" -> "split"
      [] step = "split" -> "construct"
      [] step = "construct" -> "fit"
      [] step = "fit" -> "transform"
      [] step = "transform" -> "whiten"
      [] step = "whiten" -> "reassemble"
      [] step = "reassemble" -> "done"

\* the dataset the estimator is fitted on
FitDataset == IF args.method = "pca" THEN data_0 ELSE data_lag

\* variant: `if not validation_split`
IsNoneFalsy(validation_split) ==
    ~validation_split.given \/ validation_split.num = 0

\* `validation_split is None`
IsNone(validation_split) == ~validation_split.given

\* variant: the pair returned by _random_split is unpacked the other way
LoadersSwapped(dataset, parts, validation_split, batch_size) ==
    IF IsNone(validation_split)
    THEN [train |-> DataLoader(dataset, batch_size), test |-> NoLoader]
    ELSE LET data_test == Subset(dataset, parts.train)
             data_train == Subset(dataset, parts.validation)
         IN [train |-> DataLoader(data_train, batch_size),
             test |-> DataLoader(data_test, batch_size)]

\* variant: the train loader is built over the whole dataset in both branches
LoadersTrainOnAll(dataset, parts, validation_split, batch_size) ==
    IF IsNone(validation_split)
    THEN [train |-> DataLoader(dataset, batch_size), test |-> NoLoader]
    ELSE LET data_test == Subset(dataset, parts.validation)
         IN [train |-> DataLoader(dataset, batch_size),
             test |-> DataLoader(data_test, batch_size)]

\* the (train_loader, test_loader) of the branch taken at the split step
Loaders(dataset, parts, validation_split, batch_size) ==
    IF IsNone(validation_split)
    THEN [train |-> DataLoader(dataset, batch_size), test |-> NoLoader]
    ELSE LET data_test == Subset(dataset, parts.validation)
             data_train == Subset(dataset, parts.train)
         IN [train |-> DataLoader(data_train, batch_size),
             test |-> DataLoader(data_test, batch_size)]

\* variant: _transform is called with the dataset the model was fitted on
TransformInputLagged == IF args.method = "pca" THEN data_0 ELSE data_lag

\* the dataset _transform is called with
TransformInput == data_0

\* variant: the whitening branch is taken whatever the flag
WhitenAlways(whiten) == TRUE

\* `if whiten:` in _transform
WhitenRequested(whiten) == whiten

\* variant: the reassembly loop without `p += length`
RECURSIVE CollectStale(_, _, _)
CollectStale(lengths, p, td) ==
    IF lengths = <<>> THEN <<>>
    ELSE <<Slice(td, p, p + Head(lengths))>> \o CollectStale(Tail(lengths), p, td)

\* the reassembly loop of _transform
RECURSIVE Collect(_, _, _)
Collect(lengths, p, td) ==
    IF lengths = <<>> THEN <<>>
    ELSE <<Slice(td, p, p + Head(lengths))>>
         \o Collect(Tail(lengths), p + Head(lengths), td)

Reassembled(container, lengths, td) ==
    IF container \in {"list", "tuple"}
    THEN [kind |-> "list", rows |-> <<>>, chunks |-> Collect(lengths, 0, td)]
    ELSE [kind |-> "array", rows |-> td, chunks |-> <<>>]

\* ---------------------------------------------------------------- actions
Call ==
    /\ pc = "idle"
    /\ \E m \in Methods, c \in Containers, ls \in LengthLists,
          l \in 0..MaxLag, e \in 1..MaxEpochs, v \in Splits,
          b \in 1..MaxBatch, w \in BOOLEAN :
          /\ c = "array" => Len(ls) = 1
          /\ m = "pca" => l = 0
          /\ m # "ae" => e = 1
          /\ args' = [method |-> m, container |-> c, lengths |-> ls, lag |-> l,
                      n_epochs |-> e, validation_split |-> v, batch_size |-> b,
                      whiten |-> w]
    /\ pc' = "create_dataset"
    /\ UNCHANGED <<data_0, data_lag, split_out, split_calls, train_loader,
                   test_loader, model, losses, passes, raw, transformed_data,
                   result, error>>

CreateDataset ==
    /\ pc = "create_dataset"
    /\ data_0' = create_dataset(args.lengths, 0)
    /\ data_lag' = IF args.method = "pca" THEN <<>>
                   ELSE create_dataset(args.lengths, args.lag)
    /\ pc' = NextStep(pc)
    /\ UNCHANGED <<args, split_out, split_calls, train_loader, test_loader,
                   model, losses, passes, raw, transformed_data, result, error>>

WholeLoader ==
    /\ pc = "split"
    /\ IsNone(args.validation_split)
    /\ LET l == Loaders(FitDataset, split_out, args.validation_split, args.batch_size)
       IN /\ train_loader' = l.train
          /\ test_loader' = l.test
    /\ pc' = NextStep(pc)
    /\ UNCHANGED <<args, data_0, data_lag, split_out, split_calls, model,
                   losses, passes, raw, transformed_data, result, error>>

Split ==
    /\ pc = "split"
    /\ ~IsNone(args.validation_split)
    /\ ~InvalidFraction(args.validation_split, Len(FitDataset))
    /\ \E parts \in random_split(Len(FitDataset), args.validation_split) :
          /\ split_out' = parts
          /\ LET l == Loaders(FitDataset, parts, args.validation_split, args.batch_size)
             IN /\ train_loader' = l.train
                /\ test_loader' = l.test
    /\ split_calls' = split_calls + 1
    /\ pc' = NextStep(pc)
    /\ UNCHANGED <<args, data_0, data_lag, model, losses, passes, raw,
                   transformed_data, result, error>>

SplitFails ==
    /\ pc = "split"
    /\ ~IsNone(args.validation_split)
    /\ InvalidFraction(args.validation_split, Len(FitDataset))
    /\ split_calls' = split_calls + 1
    /\ error' = "InvalidFractionError"
    /\ pc' = "failed"
    /\ UNCHANGED <<args, data_0, data_lag, split_out, train_loader,
                   test_loader, model, losses, passes, raw, transformed_data,
                   result>>

Construct ==
    /\ pc = "construct"
    /\ model' = NewModel(args.method)
    /\ pc' = NextStep(pc)
    /\ UNCHANGED <<args, data_0, data_lag, split_out, split_calls,
                   train_loader, test_loader, losses, passes, raw,
                   transformed_data, result, error>>

Fit ==
    /\ pc = "fit"
    /\ \E tr \in [1..args.n_epochs -> Iter(train_loader)] :
       \E te \in Iter(test_loader) :
          /\ model' = [model EXCEPT !.fitted = TRUE,
                                    !.stats = FitState(model.kind, tr)]
          /\ passes' = passes
                \o [e \in 1..args.n_epochs |-> [loader |-> "train", batches |-> tr[e]]]
                \o (IF test_loader.present
                    THEN <<[loader |-> "test", batches |-> te]>> ELSE <<>>)
    /\ losses' = [train |-> "finite",
                  test |-> IF test_loader.present THEN "finite" ELSE "NaN"]
    /\ pc' = NextStep(pc)
    /\ UNCHANGED <<args, data_0, data_lag, split_out, split_calls,
                   train_loader, test_loader, raw, transformed_data, result,
                   error>>

Transform ==
    /\ pc = "transform"
    /\ \E p \in Iter(DataLoader(TransformInput, args.batch_size)) :
          /\ raw' = model_transform(p)
          /\ passes' = Append(passes, [loader |-> "transform", batches |-> p])
    /\ pc' = NextStep(pc)
    /\ UNCHANGED <<args, data_0, data_lag, split_out, split_calls,
                   train_loader, test_loader, model, losses,
                   transformed_data, result, error>>

Whiten ==
    /\ pc = "whiten"
    /\ WhitenRequested(args.whiten)
    /\ transformed_data' = whiten_data(raw)
    /\ pc' = NextStep(pc)
    /\ UNCHANGED <<args, data_0, data_lag, split_out, split_calls,
                   train_loader, test_loader, model, losses, passes, raw,
                   result, error>>

NoWhiten ==
    /\ pc = "whiten"
    /\ ~WhitenRequested(args.whiten)
    /\ transformed_data' = raw
    /\ pc' = NextStep(pc)
    /\ UNCHANGED <<args, data_0, data_lag, split_out, split_calls,
                   train_loader, test_loader, model, losses, passes, raw,
                   result, error>>

Reassemble ==
    /\ pc = "reassemble"
    /\ result' = Reassembled(args.container, args.lengths, transformed_data)
    /\ pc' = NextStep(pc)
    /\ UNCHANGED <<args, data_0, data_lag, split_out, split_calls,
                   train_loader, test_loader, model, losses, passes, raw,
                   transformed_data, error>>

Next ==
    \/ Call
    \/ CreateDataset
    \/ WholeLoader
    \/ Split
    \/ SplitFails
    \/ Construct
    \/ Fit
    \/ Transform
    \/ Whiten
    \/ NoWhiten
    \/ Reassemble

Spec == Init /\ [][Next]_vars

\* ---------------------------------------------------------------- properties
IsList == args.container \in {"list", "tuple"}
PastSplit == pc \in {"construct", "fit", "transform", "whiten", "reassemble", "done"}
PastFit == pc \in {"transform", "whiten", "reassemble", "done"}
PastTransform == pc \in {"whiten", "reassemble", "done"}
PastWhiten == pc \in {"reassemble", "done"}
Range(s) == {s[j] : j \in 1..Len(s)}
Offset(lengths, i) == SumSeq(SubSeq(lengths, 1, i - 1))
Ceil(n, b) == (n + b - 1) \div b
Abs(x) == IF x < 0 THEN 0 - x ELSE x

\* C1: a list or tuple of k series comes back as a list of k chunks, chunk i
\* being rows [p_i, p_i + T_i) of the transformed array with p_i the sum of
\* the earlier lengths, so the chunks are in input order, disjoint and cover
\* every row once; a single series comes back as a single array.
C1_Reassembly ==
    pc = "done" =>
        IF IsList
        THEN /\ result.kind = "list"
             /\ Len(result.chunks) = Len(args.lengths)
             /\ \A i \in 1..Len(args.lengths) :
                    result.chunks[i] =
                        [j \in 1..args.lengths[i] |->
                            transformed_data[Offset(args.lengths, i) + j]]
             /\ Flatten(result.chunks) = transformed_data
             /\ Cardinality({r.src : r \in Range(Flatten(result.chunks))})
                    = Len(transformed_data)
        ELSE /\ result.kind = "array"
             /\ result.rows = transformed_data

C1_Witness ==
    /\ pc = "done"
    /\ args.container = "tuple"
    /\ args.lengths = <<1, 2>>
    /\ Len(result.chunks) = 2

\* C2: whatever the lag, the split and the batch size, transform runs over
\* the lag=0 dataset of the whole input: the output has T_1 + ... + T_k
\* rows and chunk i has T_i rows.
C2_TransformUsesLagZero ==
    /\ PastTransform =>
          /\ Len(raw) = SumSeq(args.lengths)
          /\ Flatten(passes[Len(passes)].batches) = create_dataset(args.lengths, 0)
    /\ pc = "done" =>
          IF IsList
          THEN \A i \in 1..Len(args.lengths) :
                  Len(result.chunks[i]) = args.lengths[i]
          ELSE Len(result.rows) = args.lengths[1]

C2_Witness ==
    /\ pc = "done"
    /\ args.method = "tica"
    /\ args.lag = 1
    /\ args.validation_split.given
    /\ IsList
    /\ Len(data_lag) < Len(raw)

\* C3: the dataset for lag L holds exactly the pairs (x_t, x_{t+L}) with
\* 0 <= t < T_i - L of every series i: its length is the sum of
\* max(0, T_i - L), a series with T_i <= L gives no pair, both halves of a
\* pair lie in one series, and pairs come in series order, then time order.
DatasetAsSpecified(ds, lengths, L) ==
    /\ Len(ds) = SumSeq([i \in 1..Len(lengths) |-> Max(0, lengths[i] - L)])
    /\ Range(ds) = UNION {{<<<<i, t>>, <<i, t + L>>>> : t \in 0..(lengths[i] - L - 1)} :
                            i \in 1..Len(lengths)}
    /\ \A j \in 1..Len(ds) :
          /\ ds[j][1][1] = ds[j][2][1]
          /\ ds[j][2][2] = ds[j][1][2] + L
          /\ ds[j][2][2] < lengths[ds[j][1][1]]
    /\ \A i \in 1..Len(lengths) :
          lengths[i] <= L => \A j \in 1..Len(ds) : ds[j][1][1] # i
    /\ \A j, k \in 1..Len(ds) :
          j < k => \/ ds[j][1][1] < ds[k][1][1]
                   \/ ds[j][1][1] = ds[k][1][1] /\ ds[j][1][2] < ds[k][1][2]

C3_DatasetBuilder ==
    pc \notin {"idle", "create_dataset"} =>
        /\ DatasetAsSpecified(data_0, args.lengths, 0)
        /\ args.method # "pca" => DatasetAsSpecified(data_lag, args.lengths, args.lag)

C3_Witness ==
    /\ pc = "split"
    /\ args.method = "ae"
    /\ args.lag = 1
    /\ args.lengths = <<1, 2>>
    /\ Len(data_lag) = 1

\* C4: after a split of a dataset of size N by fraction f the validation
\* and train index lists are disjoint, together hold every index once,
\* the validation list has round(f * N) entries, the first list feeds the
\* test loader and the second the train loader.
C4_Splitter ==
    (PastSplit /\ args.validation_split.given) =>
        LET N == Len(FitDataset)
            f == args.validation_split
            V == split_out.validation
            T == split_out.train
        IN /\ Range(V) \cap Range(T) = {}
           /\ Range(V) \cup Range(T) = 1..N
           /\ Cardinality(Range(V)) = Len(V)
           /\ Cardinality(Range(T)) = Len(T)
           /\ Len(V) + Len(T) = N
           /\ 2 * Abs(f.den * Len(V) - f.num * N) <= f.den
           /\ test_loader.present
           /\ test_loader.dataset = Subset(FitDataset, V)
           /\ train_loader.present
           /\ train_loader.dataset = Subset(FitDataset, T)

C4_Witness ==
    /\ pc = "fit"
    /\ args.validation_split.num = 1
    /\ args.validation_split.den = 4
    /\ Len(FitDataset) = 4
    /\ Len(split_out.validation) = 1
    /\ Len(train_loader.dataset) = 3

\* C5: a pass over a dataset of size N with batch size B yields ceil(N/B)
\* batches of consecutive samples in dataset order, all of size B but
\* possibly the last; their concatenation is the dataset; every pass over
\* the same loader yields the same batches; row j of the transform output
\* comes from sample j of the input.
PassDataset(name) ==
    CASE name = "train" -> train_loader.dataset
      [] name = "test" -> test_loader.dataset
      [] name = "transform" -> data_0

C5_BatchIterator ==
    /\ \A k \in 1..Len(passes) :
          LET bs == passes[k].batches
              ds == PassDataset(passes[k].loader)
              B == args.batch_size
          IN /\ Len(bs) = Ceil(Len(ds), B)
             /\ \A j \in 1..Len(bs) :
                   /\ Len(bs[j]) \in 1..B
                   /\ j < Len(bs) => Len(bs[j]) = B
                   /\ bs[j] = SubSeq(ds, (j - 1) * B + 1, Min(j * B, Len(ds)))
             /\ Flatten(bs) = ds
             /\ \A m \in 1..Len(passes) :
                   passes[m].loader = passes[k].loader => passes[m].batches = bs
    /\ PastTransform =>
          /\ Len(raw) = Len(data_0)
          /\ \A j \in 1..Len(raw) : raw[j].src = data_0[j][1]

C5_Witness ==
    /\ pc = "done"
    /\ args.method = "ae"
    /\ args.n_epochs = 2
    /\ args.batch_size = 2
    /\ Len(train_loader.dataset) = 3
    /\ Len(passes) = 3
    /\ Len(passes[1].batches) = 2

\* C6: without validation_split the splitter is not called, the train
\* loader runs over the whole fitting dataset, fit gets no test loader and
\* test_loss is NaN; with validation_split fit gets a test loader over the
\* validation part and a train loader over the train part only.
PassesOf(name) == {k \in 1..Len(passes) : passes[k].loader = name}

C6_OptionalSplit ==
    PastSplit =>
        IF ~args.validation_split.given
        THEN /\ split_calls = 0
             /\ train_loader.present
             /\ train_loader.dataset = FitDataset
             /\ ~test_loader.present
             /\ PastFit =>
                   /\ losses.test = "NaN"
                   /\ PassesOf("test") = {}
                   /\ PassesOf("train") # {}
                   /\ \A k \in PassesOf("train") :
                         Flatten(passes[k].batches) = FitDataset
        ELSE /\ split_calls = 1
             /\ test_loader.present
             /\ test_loader.dataset = Subset(FitDataset, split_out.validation)
             /\ train_loader.present
             /\ train_loader.dataset = Subset(FitDataset, split_out.train)
             /\ PastFit =>
                   /\ PassesOf("test") # {}
                   /\ \A k \in PassesOf("test") :
                         Range(Flatten(passes[k].batches))
                            = {FitDataset[j] : j \in Range(split_out.validation)}
                   /\ \A k \in PassesOf("train") :
                         Range(Flatten(passes[k].batches))
                            = {FitDataset[j] : j \in Range(split_out.train)}

C6_Witness ==
    /\ pc = "done"
    /\ args.method = "pca"
    /\ args.validation_split.given
    /\ Len(FitDataset) = 3
    /\ Len(train_loader.dataset) = 1
    /\ Len(test_loader.dataset) = 2

\* C7: a validation_split that is given but not inside (0,1) ends the call
\* with InvalidFractionError at the split step: nothing is fitted,
\* nothing is transformed and nothing is returned.
OutsideUnitInterval(f) == f.num <= 0 \/ f.num >= f.den

C7_InvalidFraction ==
    (/\ args.validation_split.given
     /\ OutsideUnitInterval(args.validation_split)
     /\ pc \notin {"idle", "create_dataset", "split"}) =>
        /\ pc = "failed"
        /\ error = "InvalidFractionError"
        /\ model = NoModel
        /\ ~train_loader.present
        /\ passes = <<>>
        /\ raw = <<>>
        /\ result = NoResult

C7_Witness ==
    /\ pc = "failed"
    /\ error = "InvalidFractionError"
    /\ args.method = "tica"
    /\ args.validation_split.num = 0
    /\ data_lag # <<>>

\* C8: for pca and tica without a split, the count, sums and product sums
\* accumulated over the batches of the train loader equal those of the
\* whole dataset taken as one batch, for every batch size.
C8_BatchSizeIndependent ==
    (/\ PastFit
     /\ args.method \in {"pca", "tica"}
     /\ ~args.validation_split.given) =>
        /\ model.fitted
        /\ model.stats = BatchStats(FitDataset)

C8_Witness ==
    /\ pc = "done"
    /\ args.method = "tica"
    /\ ~args.validation_split.given
    /\ args.batch_size = 2
    /\ Len(data_lag) = 3
    /\ model.stats.n = 3

\* C9: a call builds the datasets, then splits if asked, then fits, then
\* transforms, then whitens if asked, then reassembles; the model state is
\* set only by fit, transform starts only on a fitted model, and nothing
\* from transform on changes the model.
TransformPassAdded ==
    /\ Len(passes') = Len(passes) + 1
    /\ passes'[Len(passes')].loader = "transform"

C9_StepOrder ==
    [][/\ (data_0' # data_0 \/ data_lag' # data_lag) =>
              /\ split_calls = 0
              /\ ~train_loader.present
              /\ model = NoModel
       /\ (split_calls' # split_calls \/ train_loader' # train_loader) =>
              /\ data_0 # <<>>
              /\ model = NoModel
              /\ passes = <<>>
       /\ (model'.fitted # model.fitted \/ model'.stats # model.stats) =>
              /\ pc = "fit"
              /\ train_loader.present
              /\ passes = <<>>
              /\ raw = <<>>
       /\ TransformPassAdded =>
              /\ model.fitted
              /\ model' = model
              /\ transformed_data = <<>>
       /\ transformed_data' # transformed_data =>
              /\ raw # <<>>
              /\ model' = model
              /\ result = NoResult
       /\ result' # result =>
              /\ transformed_data # <<>>
              /\ model' = model
              /\ pc' = "done"
       /\ PastFit => model' = model
      ]_vars

C9_Witness ==
    /\ pc = "done"
    /\ args.method = "ae"
    /\ args.validation_split.given
    /\ args.whiten
    /\ model.fitted
    /\ model.stats.steps = 2
    /\ result.kind = "array"

\* C10: with whiten=False the returned rows are the rows model.transform
\* gave; with whiten=True every row is whitened exactly once, with the
\* statistics of the whole transformed matrix; whitening keeps the number
\* and the order of the rows, so the chunks are cut at the same places.
C10_Whitening ==
    /\ PastWhiten =>
          /\ Len(transformed_data) = Len(raw)
          /\ \A j \in 1..Len(raw) : transformed_data[j].src = raw[j].src
          /\ IF args.whiten
             THEN \A j \in 1..Len(raw) :
                     transformed_data[j].scale = <<{r.src : r \in Range(raw)}>>
             ELSE transformed_data = raw
    /\ pc = "done" =>
          IF IsList
          THEN /\ \A i \in 1..Len(args.lengths) :
                     /\ Len(result.chunks[i]) = args.lengths[i]
                     /\ \A j \in 1..Len(result.chunks[i]) :
                           result.chunks[i][j].src = <<i, j - 1>>
               /\ Flatten(result.chunks) = transformed_data
          ELSE result.rows = transformed_data

C10_Witness ==
    /\ pc = "done"
    /\ args.whiten
    /\ args.container = "list"
    /\ args.lengths = <<2, 1>>
    /\ result.chunks[2][1].scale = <<{<<1, 0>>, <<1, 1>>, <<2, 0>>}>>

====
